---- MODULE Spec2Model ----
(***************************************************************************)
(* Model of curvature_calculator.py.                                       *)
(*                                                                         *)
(* Three specifications share this module:                                 *)
(*   Spec        calculate_curvature_feature applied to small explicit     *)
(*               tables, in any row order;                                 *)
(*   TwiceSpec   the function applied to a table already in ascending      *)
(*               timestamp order, and then again to its own output;        *)
(*   ScriptSpec  the module-level script (load, derive, print, save plot,  *)
(*               save CSV, show, video-cue window, report) as a sequence   *)
(*               of steps with its early exits.  It keeps the table's row  *)
(*               count and timestamps, not its other columns: the window   *)
(*               indices 1000 and 1500 need tables of that many rows.      *)
(*                                                                         *)
(* Number representation.                                                  *)
(*   Angles (yaw, yaw_unwrapped, delta_yaw) are integers counting eighths  *)
(*   of a turn (pi/4 rad), so pi is 4 and a full turn is 8.  The inputs    *)
(*   are chosen so that atan2 lands exactly on such an angle.              *)
(*   Quaternion components are stored doubled (a stored 1 is 0.5).         *)
(*   Float columns that take fractional values (delta_t, yaw_rate,         *)
(*   curvature_feature) are records [n, d, e] standing for n/d * 10^e,     *)
(*   kept in a canonical form so that equal values are equal records;      *)
(*   d = 0 encodes the IEEE specials (n = 1: inf, -1: -inf, 0: NaN).       *)
(*   Arithmetic is exact (real-number) arithmetic on these values.         *)
(***************************************************************************)
EXTENDS Integers, Sequences, FiniteSets

VARIABLES fpc, input, out1, out2,
          pc, file_exists, nrows, clip_start, step,
          derived, files, printed, exit_status, window

vars == <<fpc, input, out1, out2,
          pc, file_exists, nrows, clip_start, step,
          derived, files, printed, exit_status, window>>

fvars == <<fpc, input, out1, out2>>
svars == <<pc, file_exists, nrows, clip_start, step,
           derived, files, printed, exit_status, window>>

----------------------------------------------------------------------------
(* Exact arithmetic on n/d * 10^e                                          *)

Abs(x) == IF x < 0 THEN -x ELSE x

Sgn(x) == IF x < 0 THEN -1 ELSE IF x > 0 THEN 1 ELSE 0

Min(a, b) == IF a <= b THEN a ELSE b

RECURSIVE GCD(_, _)
GCD(a, b) == IF b = 0 THEN a ELSE GCD(b, a % b)

RECURSIVE Pow10(_)
Pow10(k) == IF k = 0 THEN 1 ELSE 10 * Pow10(k - 1)

RECURSIVE StripDen(_, _, _)
StripDen(n, d, e) ==
    IF d % 2 = 0 THEN StripDen(n * 5, d \div 2, e - 1)
    ELSE IF d % 5 = 0 THEN StripDen(n * 2, d \div 5, e - 1)
    ELSE [n |-> n, d |-> d, e |-> e]

RECURSIVE StripNum(_, _, _)
StripNum(n, d, e) ==
    IF n % 10 = 0 THEN StripNum(n \div 10, d, e + 1)
    ELSE [n |-> n, d |-> d, e |-> e]

\* The canonical record of n/d * 10^e: d > 0 coprime to n and to 10, and n
\* not a multiple of 10.  Zero is [0, 1, 0]; d = 0 gives inf, -inf or NaN.
Num(n, d, e) ==
    IF d = 0 THEN [n |-> Sgn(n), d |-> 0, e |-> 0]
    ELSE IF n = 0 THEN [n |-> 0, d |-> 1, e |-> 0]
    ELSE LET s == Sgn(d)
             g == GCD(Abs(n), Abs(d))
             a == StripDen((s * n) \div g, (s * d) \div g, e)
         IN  StripNum(a.n, a.d, a.e)

FromInt(k) == Num(k, 1, 0)

NaN == Num(0, 0, 0)

IsFinite(a) == a.d # 0

\* IEEE division a / b (a zero divisor is +0.0).
DivNum(a, b) ==
    IF a.d = 0 /\ b.d = 0 THEN NaN
    ELSE IF a.d = 0 THEN Num(a.n * (IF b.n < 0 THEN -1 ELSE 1), 0, 0)
    ELSE IF b.d = 0 THEN Num(0, IF b.n = 0 THEN 0 ELSE 1, 0)
    ELSE IF b.n = 0 THEN Num(a.n, 0, 0)
    ELSE Num(a.n * b.d, a.d * b.n, a.e - b.e)

\* a + b, a - b and a <= b on finite values.
AddNum(a, b) ==
    LET e == Min(a.e, b.e)
    IN  Num(a.n * Pow10(a.e - e) * b.d + b.n * Pow10(b.e - e) * a.d,
            a.d * b.d, e)

NegNum(a) == [a EXCEPT !.n = -a.n]

SubNum(a, b) == AddNum(a, NegNum(b))

LeqNum(a, b) == SubNum(a, b).n <= 0

----------------------------------------------------------------------------
(* Input tables                                                            *)

MaxRows == 3

InputColumns == {"timestamp", "qx", "qy", "qz", "qw", "vx", "vy", "vz",
                 "curvature"}

DerivedColumns == {"yaw", "velocity", "yaw_unwrapped", "delta_yaw",
                   "delta_t", "yaw_rate", "curvature_feature"}

\* Timestamps in microseconds (10 Hz sampling, one irregular gap).
Timestamps == {0, 100000, 250000}

\* <<qx, qy, qz, qw>>, doubled, with the yaw each one has.
QIdentity == <<0, 0, 0, 2>>        \* yaw 0
QLeft == <<0, 0, 2, 1>>            \* yaw 3pi/4
QBack == <<0, -1, -2, 0>>          \* yaw -pi: the numerator is -0.0

\* <<vx, vy, vz>> in m/s.
VStill == <<0, 0, 0>>              \* speed 0
VMoving == <<1, -2, 2>>            \* speed 3
VFast == <<0, -3, 4>>              \* speed 5

\* The orientation and velocity a sample can have.
Poses == { <<QIdentity, VMoving>>, <<QLeft, VStill>>, <<QBack, VFast>> }

Sample(t, p, k) ==
    [timestamp |-> t,
     qx |-> p[1][1], qy |-> p[1][2], qz |-> p[1][3], qw |-> p[1][4],
     vx |-> p[2][1], vy |-> p[2][2], vz |-> p[2][3], curvature |-> k]

\* t is an input table of at most MaxRows rows.  Row i carries ground-truth
\* curvature i: opaque reference data that also tells the rows apart.
IsTable(t) ==
    \E n \in 1..MaxRows :
        \E ts \in [1..n -> Timestamps], ps \in [1..n -> Poses] :
            t = [i \in 1..n |-> Sample(ts[i], ps[i], i)]

----------------------------------------------------------------------------
(* calculate_curvature_feature                                             *)

Col(df, name) == [i \in 1..Len(df) |-> df[i][name]]

\* df[name] = col: the column is created, or overwritten when it exists.
Assign(df, name, col) ==
    [i \in 1..Len(df) |->
        [c \in (DOMAIN df[i]) \cup {name} |->
            IF c = name THEN col[i] ELSE df[i][c]]]

\* Variant: the rows are left in their input order.
SortValuesNoSort(df) == {df}

\* sort_values('timestamp').reset_index(drop=True).  The default sort kind
\* is quicksort, which is not stable: rows with equal timestamps may come
\* out in any order.  The set of tables the call can return; the row at
\* position i has index label i - 1.
SortValues(df) ==
    LET n == Len(df)
        P == { p \in [1..n -> 1..n] :
                 /\ \A i, j \in 1..n : i # j => p[i] # p[j]
                 /\ \A i \in 1..(n - 1) :
                       df[p[i]].timestamp <= df[p[i + 1]].timestamp }
    IN  { [i \in 1..n |-> df[p[i]]] : p \in P }

Pi == 4

\* np.arctan2 on the eight compass directions, in units of pi/4.  negzero
\* says that y is the float -0.0, which matters on the negative x axis.
Atan2(y, x, negzero) ==
    CASE y = 0 /\ x >= 0 -> 0
      [] y = 0 /\ x < 0  -> IF negzero THEN -Pi ELSE Pi
      [] x = 0 /\ y > 0  -> 2
      [] x = 0 /\ y < 0  -> -2
      [] y = x /\ x > 0  -> 1
      [] y = -x /\ y > 0 -> 3
      [] y = x /\ x < 0  -> -3
      [] y = -x /\ y < 0 -> -1

\* The float product a * b is -0.0 (operands are never -0.0 themselves).
NegZeroProduct(a, b) == (a = 0 /\ b < 0) \/ (b = 0 /\ a < 0)

\* 2 * (qw*qz + qx*qy) and 1 - 2 * (qy^2 + qz^2), both doubled.
YawY(r) == r.qw * r.qz + r.qx * r.qy

YawX(r) == 2 - (r.qy * r.qy + r.qz * r.qz)

YawYNegZero(r) == NegZeroProduct(r.qw, r.qz) /\ NegZeroProduct(r.qx, r.qy)

WithYaw(df) ==
    Assign(df, "yaw",
           [i \in 1..Len(df) |->
               Atan2(YawY(df[i]), YawX(df[i]), YawYNegZero(df[i]))])

\* np.sqrt, exact on the perfect squares the inputs produce.
Sqrt(n) == CHOOSE r \in 0..n : r * r = n

WithVelocity(df) ==
    Assign(df, "velocity",
           [i \in 1..Len(df) |->
               Sqrt(df[i].vx * df[i].vx + df[i].vy * df[i].vy
                    + df[i].vz * df[i].vz)])

RECURSIVE CumSum(_, _)
CumSum(s, k) == IF k = 0 THEN 0 ELSE CumSum(s, k - 1) + s[k]

\* Variant: each value gets only its own correction, not the running sum.
UnwrapLocal(p) ==
    LET n == Len(p)
        dd == [i \in 1..(n - 1) |-> p[i + 1] - p[i]]
        ddmod == [i \in 1..(n - 1) |->
                    LET m == ((dd[i] + Pi) % (2 * Pi)) - Pi
                    IN  IF m = -Pi /\ dd[i] > 0 THEN Pi ELSE m]
        ph_correct == [i \in 1..(n - 1) |->
                         IF Abs(dd[i]) < Pi THEN 0 ELSE ddmod[i] - dd[i]]
    IN  [i \in 1..n |-> IF i = 1 THEN p[1] ELSE p[i] + ph_correct[i - 1]]

\* np.unwrap with the default period 2*pi and discont pi.
Unwrap(p) ==
    LET n == Len(p)
        dd == [i \in 1..(n - 1) |-> p[i + 1] - p[i]]
        ddmod == [i \in 1..(n - 1) |->
                    LET m == ((dd[i] + Pi) % (2 * Pi)) - Pi
                    IN  IF m = -Pi /\ dd[i] > 0 THEN Pi ELSE m]
        ph_correct == [i \in 1..(n - 1) |->
                         IF Abs(dd[i]) < Pi THEN 0 ELSE ddmod[i] - dd[i]]
    IN  [i \in 1..n |->
            IF i = 1 THEN p[1] ELSE p[i] + CumSum(ph_correct, i - 1)]

WithYawUnwrapped(df) == Assign(df, "yaw_unwrapped", Unwrap(Col(df, "yaw")))

\* Series.diff(): a missing value in row 0, then the first differences.
Diff(col) ==
    [i \in 1..Len(col) |->
        IF i = 1 THEN [na |-> TRUE, v |-> 0]
        ELSE [na |-> FALSE, v |-> col[i] - col[i - 1]]]

\* Series.fillna(value).
Fillna(col, value) ==
    [i \in 1..Len(col) |-> IF col[i].na THEN value ELSE col[i].v]

\* The float64 series that diff() of an integer column yields.
AsFloat(col) ==
    [i \in 1..Len(col) |-> [na |-> col[i].na, v |-> FromInt(col[i].v)]]

\* Variant: the differences are taken of the wrapped yaw.
WithDeltaYawFromYaw(df) ==
    Assign(df, "delta_yaw", Fillna(Diff(Col(df, "yaw")), 0))

\* Variant: row 0 is differenced against 0 instead of being filled with 0.
WithDeltaYawShift(df) ==
    Assign(df, "delta_yaw",
           [i \in 1..Len(df) |->
               df[i].yaw_unwrapped
                 - (IF i = 1 THEN 0 ELSE df[i - 1].yaw_unwrapped)])

WithDeltaYaw(df) ==
    Assign(df, "delta_yaw", Fillna(Diff(Col(df, "yaw_unwrapped")), 0))

\* Variant: the division by 1e6 comes first, the fill value 1e-5 after it.
WithDeltaTFillSeconds(df) ==
    LET us == AsFloat(Diff(Col(df, "timestamp")))
        s == [i \in 1..Len(df) |->
                 [na |-> us[i].na, v |-> DivNum(us[i].v, Num(1, 1, 6))]]
    IN  Assign(df, "delta_t", Fillna(s, Num(1, 1, -5)))

\* Variant: the timestamp column itself is also converted (to milliseconds).
WithDeltaTInPlace(df) ==
    LET us == Fillna(AsFloat(Diff(Col(df, "timestamp"))), Num(1, 1, -5))
    IN  Assign(Assign(df, "delta_t",
                      [i \in 1..Len(df) |-> DivNum(us[i], Num(1, 1, 6))]),
               "timestamp",
               [i \in 1..Len(df) |-> df[i].timestamp \div 1000])

\* timestamp.diff().fillna(1e-5) / 1e6: the fill value enters the column of
\* microsecond differences, and the whole column is then divided by 1e6.
WithDeltaT(df) ==
    LET us == Fillna(AsFloat(Diff(Col(df, "timestamp"))), Num(1, 1, -5))
    IN  Assign(df, "delta_t",
               [i \in 1..Len(df) |-> DivNum(us[i], Num(1, 1, 6))])

WithYawRate(df) ==
    Assign(df, "yaw_rate",
           [i \in 1..Len(df) |->
               DivNum(FromInt(df[i].delta_yaw), df[i].delta_t)])

epsilon == Num(1, 1, -2)

\* Variant: the divisor is the speed alone.
WithCurvatureFeatureNoEpsilon(df) ==
    Assign(df, "curvature_feature",
           [i \in 1..Len(df) |->
               DivNum(df[i].yaw_rate, FromInt(Abs(df[i].velocity)))])

WithCurvatureFeature(df) ==
    Assign(df, "curvature_feature",
           [i \in 1..Len(df) |->
               DivNum(df[i].yaw_rate,
                      AddNum(FromInt(Abs(df[i].velocity)), epsilon))])

\* The tables a call can return for the argument df.
calculate_curvature_feature(df) ==
    { WithCurvatureFeature(WithYawRate(WithDeltaT(WithDeltaYaw(
        WithYawUnwrapped(WithVelocity(WithYaw(s))))))) : s \in SortValues(df) }

----------------------------------------------------------------------------------------------------------------------------------------
(* The script: module-level statements of curvature_calculator.py          *)

FILE_PATH == "25cd4769-5dcf-4b53-a351-bf2c5deb6124.egomotion.parquet"

\* os.path.splitext(os.path.basename(FILE_PATH))[0].replace('.egomotion', '')
TARGET_UUID == "25cd4769-5dcf-4b53-a351-bf2c5deb6124"

FINAL_CSV_NAME == "Curvature_Feature_Analysis_Final.csv"

PLOT_NAME == "Curvature_Profile_Plot.png"

START_INDEX == 1000

END_INDEX == 1500

\* exit() without an argument raises SystemExit(None): the process ends with
\* status 0.
ExitNoArgument == 0

\* Row counts of the file's table, around the two window indices.
RowCounts == {0, 1, 1000, 1001, 1500, 1501, 1600}

\* The table's smallest timestamp and its sampling period, in microseconds:
\* after the derivation the row with index label i has timestamp
\* clip_start + i * step.
ClipStarts == {0, 5000000}

Periods == {100000, 40000}

\* The index after reset_index(drop=True): the labels 0 .. nrows - 1.
Index == 0..(nrows - 1)

TimestampAt(label) == clip_start + label * step

\* Variant: only the start label is looked up.
WindowInIndexStartOnly == START_INDEX \in Index

\* df_ego.loc[START_INDEX, 'timestamp'] and df_ego.loc[END_INDEX,
\* 'timestamp'] both find their label.
WindowInIndex == START_INDEX \in Index /\ END_INDEX \in Index

Said(m) == \E k \in 1..Len(printed) : printed[k].msg = m

FunctionIdle == fpc = "idle" /\ input = <<>> /\ out1 = <<>> /\ out2 = <<>>

ScriptInit ==
    /\ pc = "load"
    /\ \/ file_exists = TRUE /\ nrows \in RowCounts
       \/ file_exists = FALSE /\ nrows = 0
    /\ clip_start \in ClipStarts
    /\ step \in Periods
    /\ derived = FALSE
    /\ files = {}
    /\ printed = <<>>
    /\ exit_status = -1
    /\ window = <<>>
    /\ FunctionIdle

\* pd.read_parquet succeeds.
ReadParquet ==
    /\ pc = "load"
    /\ file_exists
    /\ printed' = Append(printed, [msg |-> "loaded", rows |-> nrows])
    /\ pc' = "derive"
    /\ UNCHANGED <<file_exists, nrows, clip_start, step, derived, files,
                   exit_status, window>>
    /\ UNCHANGED fvars

\* Variant: the handler prints the message and falls through.
FileNotFoundNoExit ==
    /\ pc = "load"
    /\ ~file_exists
    /\ printed' = Append(printed, [msg |-> "file not found", path |-> FILE_PATH])
    /\ pc' = "derive"
    /\ UNCHANGED <<file_exists, nrows, clip_start, step, derived, files,
                   exit_status, window>>
    /\ UNCHANGED fvars

\* pd.read_parquet raises FileNotFoundError: the message, then exit().
FileNotFound ==
    /\ pc = "load"
    /\ ~file_exists
    /\ printed' = Append(printed, [msg |-> "file not found", path |-> FILE_PATH])
    /\ exit_status' = ExitNoArgument
    /\ pc' = "exited"
    /\ UNCHANGED <<file_exists, nrows, clip_start, step, derived, files,
                   window>>
    /\ UNCHANGED fvars

\* df_ego = calculate_curvature_feature(df_ego): as many rows as before.
ApplyCurvature ==
    /\ pc = "derive"
    /\ derived' = TRUE
    /\ pc' = "validate"
    /\ UNCHANGED <<file_exists, nrows, clip_start, step, files, printed,
                   exit_status, window>>
    /\ UNCHANGED fvars

PrintValidation ==
    /\ pc = "validate"
    /\ printed' = Append(printed, [msg |-> "curvature feature created"])
    /\ pc' = "plot"
    /\ UNCHANGED <<file_exists, nrows, clip_start, step, derived, files,
                   exit_status, window>>
    /\ UNCHANGED fvars

SavePlot ==
    /\ pc = "plot"
    /\ files' = files \cup {PLOT_NAME}
    /\ printed' = Append(printed, [msg |-> "plot saved", path |-> PLOT_NAME])
    /\ pc' = "csv"
    /\ UNCHANGED <<file_exists, nrows, clip_start, step, derived,
                   exit_status, window>>
    /\ UNCHANGED fvars

SaveCsv ==
    /\ pc = "csv"
    /\ files' = files \cup {FINAL_CSV_NAME}
    /\ printed' = Append(printed,
                         [msg |-> "results saved", path |-> FINAL_CSV_NAME])
    /\ pc' = "show"
    /\ UNCHANGED <<file_exists, nrows, clip_start, step, derived,
                   exit_status, window>>
    /\ UNCHANGED fvars

ShowPlot ==
    /\ pc = "show"
    /\ pc' = "extract"
    /\ UNCHANGED <<file_exists, nrows, clip_start, step, derived, files,
                   printed, exit_status, window>>
    /\ UNCHANGED fvars

\* Both .loc lookups succeed.
ExtractWindow ==
    /\ pc = "extract"
    /\ WindowInIndex
    /\ window' = <<TimestampAt(START_INDEX), TimestampAt(END_INDEX)>>
    /\ pc' = "report"
    /\ UNCHANGED <<file_exists, nrows, clip_start, step, derived, files,
                   printed, exit_status>>
    /\ UNCHANGED fvars

\* A .loc lookup raises KeyError: the message, then exit().
WindowKeyError ==
    /\ pc = "extract"
    /\ ~WindowInIndex
    /\ printed' = Append(printed, [msg |-> "index not found"])
    /\ exit_status' = ExitNoArgument
    /\ pc' = "exited"
    /\ UNCHANGED <<file_exists, nrows, clip_start, step, derived, files,
                   window>>
    /\ UNCHANGED fvars

\* The cue times and the video file name; the script then ends normally.
VideoCueReport ==
    /\ pc = "report"
    /\ LET clip_start_us == TimestampAt(0)
           event_start_time_s ==
               DivNum(FromInt(window[1] - clip_start_us), Num(1, 1, 6))
           event_end_time_s ==
               DivNum(FromInt(window[2] - clip_start_us), Num(1, 1, 6))
       IN  printed' = Append(printed,
               [msg |-> "video cue points",
                start |-> event_start_time_s,
                end |-> event_end_time_s,
                duration |-> SubNum(event_end_time_s, event_start_time_s),
                video |-> TARGET_UUID])
    /\ exit_status' = 0
    /\ pc' = "done"
    /\ UNCHANGED <<file_exists, nrows, clip_start, step, derived, files,
                   window>>
    /\ UNCHANGED fvars

ScriptNext ==
    \/ ReadParquet
    \/ FileNotFound
    \/ ApplyCurvature
    \/ PrintValidation
    \/ SavePlot
    \/ SaveCsv
    \/ ShowPlot
    \/ ExtractWindow
    \/ WindowKeyError
    \/ VideoCueReport

ScriptSpec == ScriptInit /\ [][ScriptNext]_vars

----------------------------------------------------------------------------
(* The function applied to an input table, and then to its own output      *)

ScriptIdle ==
    /\ pc = "idle" /\ file_exists = FALSE /\ nrows = 0 /\ clip_start = 0
    /\ step = 0 /\ derived = FALSE /\ files = {} /\ printed = <<>>
    /\ exit_status = -1 /\ window = <<>>

Ascending(df) ==
    \A i \in 1..(Len(df) - 1) : df[i].timestamp <= df[i + 1].timestamp

StrictlyAscending(df) ==
    \A i \in 1..(Len(df) - 1) : df[i].timestamp < df[i + 1].timestamp

Init ==
    /\ fpc = "input"
    /\ IsTable(input)
    /\ out1 = <<>>
    /\ out2 = <<>>
    /\ ScriptIdle

\* The inputs of the second specification: tables already in ascending
\* timestamp order.
TwiceInit ==
    /\ fpc = "input"
    /\ IsTable(input)
    /\ Ascending(input)
    /\ out1 = <<>>
    /\ out2 = <<>>
    /\ ScriptIdle

Derive ==
    /\ fpc = "input"
    /\ out1' \in calculate_curvature_feature(input)
    /\ fpc' = "once"
    /\ UNCHANGED <<input, out2>>
    /\ UNCHANGED svars

DeriveAgain ==
    /\ fpc = "once"
    /\ out2' \in calculate_curvature_feature(out1)
    /\ fpc' = "twice"
    /\ UNCHANGED <<input, out1>>
    /\ UNCHANGED svars

Next == Derive

Spec == Init /\ [][Next]_vars

TwiceNext == Derive \/ DeriveAgain

TwiceSpec == TwiceInit /\ [][TwiceNext]_vars

----------------------------------------------------------------------------
(* Properties of calculate_curvature_feature (Spec, TwiceSpec)             *)

Rows == 1..Len(out1)

C5_CurvatureFormula ==
    fpc = "once" =>
        \A i \in Rows \ {1} :
            out1[i].timestamp # out1[i - 1].timestamp =>
                out1[i].curvature_feature =
                    DivNum(DivNum(FromInt(out1[i].yaw_unwrapped
                                          - out1[i - 1].yaw_unwrapped),
                                  DivNum(FromInt(out1[i].timestamp
                                                 - out1[i - 1].timestamp),
                                         Num(1, 1, 6))),
                           AddNum(FromInt(out1[i].velocity), Num(1, 1, -2)))

C5_Witness ==
    /\ fpc = "once"
    /\ \E i \in Rows \ {1} :
          /\ out1[i].timestamp # out1[i - 1].timestamp
          /\ out1[i].yaw_unwrapped # out1[i].yaw
          /\ out1[i].velocity > 0
          /\ IsFinite(out1[i].curvature_feature)
          /\ out1[i].curvature_feature.n # 0

\* C6: row 0 of the output has delta_yaw = 0 (a number, not a missing
\* value), yaw_rate = 0 and curvature_feature = 0, whatever the first
\* sample is.
C6_FirstRowIsZero ==
    fpc = "once" =>
        /\ out1[1].delta_yaw = 0
        /\ out1[1].yaw_rate = FromInt(0)
        /\ out1[1].curvature_feature = FromInt(0)

C6_Witness ==
    /\ fpc = "once"
    /\ out1[1].yaw # 0
    /\ out1[1].velocity = 0
    /\ out1[1].timestamp # 0
    /\ out1[1].delta_yaw = 0
    /\ out1[1].curvature_feature = FromInt(0)

\* C8: the output has as many rows as the input, in ascending timestamp
\* order; its rows are the input's rows permuted, each with its input
\* columns (timestamp, quaternion, velocity components, ground-truth
\* curvature) unchanged; every input column is an output column.
C8_OriginalFieldsKept ==
    fpc = "once" =>
        /\ Len(out1) = Len(input)
        /\ Ascending(out1)
        /\ \A i \in Rows : DOMAIN input[i] \subseteq DOMAIN out1[i]
        /\ \E p \in [Rows -> Rows] :
              /\ \A i, j \in Rows : i # j => p[i] # p[j]
              /\ \A i \in Rows : \A c \in InputColumns :
                    out1[i][c] = input[p[i]][c]

C8_Witness ==
    /\ fpc = "once"
    /\ Len(input) = 3
    /\ ~Ascending(input)
    /\ out1[1].curvature = 3
    /\ DOMAIN out1[1] = InputColumns \cup DerivedColumns

\* C9: for every row i > 0, |yaw_unwrapped[i] - yaw_unwrapped[i-1]| <= pi,
\* and in every row yaw_unwrapped differs from yaw by a whole number of
\* turns (2*pi).
C9_Unwrapped ==
    fpc = "once" =>
        /\ \A i \in Rows \ {1} :
              Abs(out1[i].yaw_unwrapped - out1[i - 1].yaw_unwrapped) <= Pi
        /\ \A i \in Rows :
              (out1[i].yaw_unwrapped - out1[i].yaw) % (2 * Pi) = 0

C9_Witness ==
    /\ fpc = "once"
    /\ Len(out1) = 3
    /\ Abs(out1[2].yaw - out1[1].yaw) > Pi
    /\ Abs(out1[3].yaw - out1[2].yaw) < Pi
    /\ out1[3].yaw_unwrapped # out1[3].yaw

\* C10: in every row velocity >= 0 and curvature_feature is yaw_rate divided
\* by velocity + 0.01, a divisor that is at least 0.01 and exactly 0.01 at
\* a sample with vx = vy = vz = 0: the division is never one by zero.
C10_Divisor ==
    fpc = "once" =>
        \A i \in Rows :
            LET divisor == AddNum(FromInt(out1[i].velocity), Num(1, 1, -2))
            IN  /\ out1[i].velocity >= 0
                /\ LeqNum(Num(1, 1, -2), divisor)
                /\ (out1[i].vx = 0 /\ out1[i].vy = 0 /\ out1[i].vz = 0)
                      => divisor = Num(1, 1, -2)
                /\ out1[i].curvature_feature =
                      DivNum(out1[i].yaw_rate, divisor)
                /\ IsFinite(out1[i].yaw_rate)
                      => IsFinite(out1[i].curvature_feature)

C10_Witness ==
    /\ fpc = "once"
    /\ \E i \in Rows :
          /\ out1[i].velocity = 0
          /\ IsFinite(out1[i].yaw_rate)
          /\ out1[i].yaw_rate.n # 0
          /\ out1[i].curvature_feature =
                DivNum(out1[i].yaw_rate, Num(1, 1, -2))

\* C7 (as stated): for every input sorted by ascending timestamp, applying
\* the function to its own output gives a table equal to that output.
C7_Idempotent ==
    fpc = "twice" => out2 = out1

\* C7 (amended): for every input whose timestamps are strictly ascending
\* (no two rows share a timestamp), applying the function to its own output
\* gives a table equal to that output.
C7_IdempotentWithoutTies ==
    (fpc = "twice" /\ StrictlyAscending(input)) => out2 = out1

C7_Witness ==
    /\ fpc = "twice"
    /\ StrictlyAscending(input)
    /\ Len(input) = 3
    /\ out1[2].yaw_unwrapped # out1[2].yaw
    /\ out2 = out1

----------------------------------------------------------------------------
(* Properties of the script (ScriptSpec)                                   *)

Terminated == pc \in {"exited", "done"}

\* C2: when the input file does not exist, the run reports an error naming
\* the path and ends with a non-zero exit status, without running the
\* derivation and without writing the plot or the CSV.
C2_MissingFileExitsNonZero ==
    (Terminated /\ ~file_exists) =>
        /\ \E k \in 1..Len(printed) :
              printed[k].msg = "file not found" /\ printed[k].path = FILE_PATH
        /\ exit_status # 0
        /\ ~derived
        /\ files = {}

\* C3 (as stated): no run that ends in a reported error (missing file, or
\* index not found for the video-cue window) has written an output file.
C3_NoOutputBeforeError ==
    pc = "exited" => files = {}

\* C3 (amended): a run that ends in the missing-file error has written no
\* output file; a run that ends in the index error of the video-cue window
\* has already written both the plot and the CSV.
C3_OutputsPrecedeWindow ==
    pc = "exited" =>
        /\ ~file_exists => files = {}
        /\ file_exists => (Said("index not found")
                            /\ files = {PLOT_NAME, FINAL_CSV_NAME})

C3_Witness ==
    /\ pc = "exited"
    /\ file_exists
    /\ nrows = 1001
    /\ files = {PLOT_NAME, FINAL_CSV_NAME}

\* C4: for every loaded table without index 1000 or without index 1500
\* (fewer than 1501 rows), the run reports the index error and exits: it
\* never prints the video-cue report.
C4_NoReportWithoutWindow ==
    (file_exists /\ nrows <= END_INDEX) =>
        /\ ~Said("video cue points")
        /\ pc \notin {"report", "done"}
        /\ pc = "exited" => Said("index not found")

C4_Witness ==
    /\ file_exists
    /\ nrows > START_INDEX
    /\ nrows <= END_INDEX
    /\ pc = "exited"
    /\ Said("index not found")
    /\ ~Said("video cue points")

====
